---- MODULE Spec2Model ----
(***************************************************************************)
(* Model of the RAG chat application: the chunker, the embedder, the       *)
(* Pinecone index gateway (lib/pinecone.ts), the document registry and the *)
(* RAG orchestrator (lib/rag.ts), together with the API route handlers     *)
(* that call them.                                                         *)
(*                                                                         *)
(* A request is handled in steps, one per call to an external service      *)
(* (Gemini, Pinecone): a step is the answer of the service together with   *)
(* what the handler does until its next call.  Identifiers are sequences   *)
(* of characters, texts are run-length encoded sequences of characters,    *)
(* and an error message is a sequence of message fragments, on which       *)
(* String.includes is membership of a fragment.                            *)
(***************************************************************************)
EXTENDS Integers, Sequences, FiniteSets, TLC

\* ------------------------------------------------------------------------
\* Strings
\* ------------------------------------------------------------------------
\* Identifiers, sources and record ids are sequences of characters.  Texts
\* (document text, chunks, the query, the context) are run-length encoded:
\* a text is a sequence of runs [c |-> character, n |-> repetitions >= 1] in
\* which adjacent runs have different characters, so that equal texts are
\* equal values.  The operators below are the String methods on that encoding.

Min(a, b) == IF a < b THEN a ELSE b

Max(a, b) == IF a > b THEN a ELSE b

SetMax(S) == CHOOSE x \in S : \A y \in S : y <= x

Range(f) == {f[i] : i \in DOMAIN f}

\* n copies of the character c
Rep(c, n) == IF n <= 0 THEN << >> ELSE <<[c |-> c, n |-> n]>>

\* a + b on texts
cat(a, b) ==
    IF a = << >> THEN b
    ELSE IF b = << >> THEN a
    ELSE IF a[Len(a)].c = b[1].c
    THEN SubSeq(a, 1, Len(a) - 1) \o <<[c |-> b[1].c, n |-> a[Len(a)].n + b[1].n]>>
            \o Tail(b)
    ELSE a \o b

\* the text of a sequence of characters
RECURSIVE Str(_)
Str(chars) ==
    IF chars = << >> THEN << >> ELSE cat(Rep(Head(chars), 1), Str(Tail(chars)))

\* String.prototype.length
RECURSIVE length(_)
length(t) == IF t = << >> THEN 0 ELSE Head(t).n + length(Tail(t))

\* the first k characters of a text, and the text without them
RECURSIVE take(_, _)
take(t, k) ==
    IF k <= 0 \/ t = << >> THEN << >>
    ELSE IF Head(t).n >= k THEN Rep(Head(t).c, k)
    ELSE <<Head(t)>> \o take(Tail(t), k - Head(t).n)

RECURSIVE drop(_, _)
drop(t, k) ==
    IF k <= 0 \/ t = << >> THEN t
    ELSE IF Head(t).n > k THEN Rep(Head(t).c, Head(t).n - k) \o Tail(t)
    ELSE drop(Tail(t), k - Head(t).n)

\* String.prototype.slice(from, to) for 0 <= from, with 0-based offsets
slice(t, from, to) == take(drop(t, from), to - from)

\* the characters String.prototype.trim removes (those the model uses)
Whitespace == {" ", "\n", "\t"}

RECURSIVE trimStart(_)
trimStart(t) ==
    IF t # << >> /\ Head(t).c \in Whitespace THEN trimStart(Tail(t)) ELSE t

RECURSIVE trimEnd(_)
trimEnd(t) ==
    IF t # << >> /\ t[Len(t)].c \in Whitespace
    THEN trimEnd(SubSeq(t, 1, Len(t) - 1)) ELSE t

\* String.prototype.trim
trim(t) == trimEnd(trimStart(t))

\* String.prototype.lastIndexOf(c) for a one-character c: 0-based, -1 if absent
RECURSIVE lastIndexOf(_, _)
lastIndexOf(t, c) ==
    IF t = << >> THEN -1
    ELSE IF t[Len(t)].c = c THEN length(t) - 1
    ELSE lastIndexOf(SubSeq(t, 1, Len(t) - 1), c)

\* Array.prototype.join(sep) on an array of texts
RECURSIVE join(_, _)
join(arr, sep) ==
    IF Len(arr) = 0 THEN << >>
    ELSE IF Len(arr) = 1 THEN arr[1]
    ELSE cat(cat(arr[1], sep), join(Tail(arr), sep))

\* String.prototype.startsWith on sequences of characters
startsWith(s, prefix) ==
    /\ Len(prefix) <= Len(s)
    /\ \A i \in 1..Len(prefix) : s[i] = prefix[i]

\* decimal digits of a non-negative integer, as `${n}` renders it
RECURSIVE Decimal(_)
Decimal(n) ==
    LET d == <<"0", "1", "2", "3", "4", "5", "6", "7", "8", "9">>
    IN  IF n < 10 THEN <<d[n + 1]>> ELSE Decimal(n \div 10) \o <<d[(n % 10) + 1]>>

\* the elements as they are, duplicates included
asCollected(arr) == arr

\* [...new Set(arr)]: the distinct elements in order of first occurrence
RECURSIVE dedupe(_)
dedupe(arr) ==
    IF arr = << >> THEN << >>
    ELSE LET init == dedupe(SubSeq(arr, 1, Len(arr) - 1))
             last == arr[Len(arr)]
         IN  IF \E i \in 1..Len(init) : init[i] = last THEN init ELSE Append(init, last)

\* ------------------------------------------------------------------------
\* Chunker (lib/utils/chunking.ts)
\* ------------------------------------------------------------------------

\* an iteration that leaves a character out between two windows
skipStep(text, start, chunkSize, chunkOverlap) ==
    LET end == Min(start + chunkSize, length(text))
    IN  [chunk |-> trim(slice(text, start, end)), to |-> end, start |-> end + 1]

\* an iteration that takes no notice of the end of the text
fixedStep(text, start, chunkSize, chunkOverlap) ==
    LET end == Min(start + chunkSize, length(text))
    IN  [chunk |-> trim(slice(text, start, end)), to |-> end,
         start |-> start + chunkSize - chunkOverlap]

\* an iteration whose fixed-width cut advances by the whole window
noOverlapStep(text, start, chunkSize, chunkOverlap) ==
    LET end == Min(start + chunkSize, length(text))
    IN  [chunk |-> trim(slice(text, start, end)), to |-> end,
         start |-> IF end < length(text) THEN start + chunkSize ELSE length(text)]

\* an iteration that cuts at the last '.' or newline wherever it lies
anyBreakStep(text, start, chunkSize, chunkOverlap) ==
    LET end == Min(start + chunkSize, length(text))
        chunk == slice(text, start, end)
        breakPoint == Max(lastIndexOf(chunk, "."), lastIndexOf(chunk, "\n"))
    IN  IF end < length(text)
        THEN IF breakPoint >= 0
             THEN [chunk |-> trim(slice(chunk, 0, breakPoint + 1)),
                   to |-> start + breakPoint + 1,
                   start |-> start + breakPoint + 1]
             ELSE [chunk |-> trim(chunk), to |-> end,
                   start |-> start + chunkSize - chunkOverlap]
        ELSE [chunk |-> trim(chunk), to |-> end, start |-> length(text)]

\* an iteration that leaves the start where it is
stuckStep(text, start, chunkSize, chunkOverlap) ==
    LET end == Min(start + chunkSize, length(text))
    IN  [chunk |-> trim(slice(text, start, end)), to |-> end, start |-> start]

\* one iteration of the while loop of chunkText: the chunk pushed, the offset
\* the window it was cut from ends at, and the new start; the window and its
\* breakPoint are computed once, as the const and let of the loop body are
chunkStep(text, start, chunkSize, chunkOverlap) ==
    LET end == Min(start + chunkSize, length(text))
        cuts == { [chunk |-> chunk,
                   breakPoint |-> Max(lastIndexOf(chunk, "."), lastIndexOf(chunk, "\n"))] :
                      chunk \in {slice(text, start, end)} }
    IN  CHOOSE step \in
            { IF end < length(text)
              THEN IF 2 * cut.breakPoint > chunkSize
                   THEN [chunk |-> trim(slice(cut.chunk, 0, cut.breakPoint + 1)),
                         to |-> start + cut.breakPoint + 1,
                         start |-> start + cut.breakPoint + 1]
                   ELSE [chunk |-> trim(cut.chunk), to |-> end,
                         start |-> start + chunkSize - chunkOverlap]
              ELSE [chunk |-> trim(cut.chunk), to |-> end, start |-> length(text)] :
                cut \in cuts } : TRUE

\* the chunks pushed by the loop from offset start on, before the final filter
RECURSIVE chunkLoop(_, _, _, _)
chunkLoop(text, start, chunkSize, chunkOverlap) ==
    IF start < length(text)
    THEN LET s == chunkStep(text, start, chunkSize, chunkOverlap)
         IN  <<s.chunk>> \o chunkLoop(text, s.start, chunkSize, chunkOverlap)
    ELSE << >>

\* a filter that lets every chunk through
anyChunk(c) == TRUE

NonEmpty(c) == length(c) > 0

chunkText(text, chunkSize, chunkOverlap) ==
    IF length(trim(text)) = 0 THEN << >>
    ELSE SelectSeq(chunkLoop(text, 0, chunkSize, chunkOverlap), NonEmpty)

\* ------------------------------------------------------------------------
\* Values shared by the components
\* ------------------------------------------------------------------------

\* lib/embeddings.ts: the dimension of text-embedding-004 vectors
EMBEDDING_DIMENSION == 768

\* the arguments processDocument passes to chunkText
CHUNK_SIZE == 1000

CHUNK_OVERLAP == 200

\* topK as the chat route passes it to queryRAG
TOP_K == 5

\* the batch size of the metadata fetch in getUniqueDocuments
FETCH_BATCH_SIZE == 100

\* the value of an absent property or variable (undefined); no string equals it
NoValue == <<"<undefined>">>

\* the same for a text
NoText == <<[c |-> "<undefined>", n |-> 0]>>

\* JavaScript truthiness of a string-or-undefined value
Truthy(v) == v # NoValue /\ Len(v) > 0

TruthyText(t) == t # NoText /\ length(t) > 0

\* a value that is truthy and is not a string (a number)
NotAString == <<[c |-> "<number>", n |-> 1]>>

\* typeof v === 'string' for a text, a number or undefined
IsString(t) == t # NoText /\ t # NotAString

\* the key of chunk number index of a document: `${documentId}-chunk-${index}`
ChunkPrefix(documentId) == documentId \o <<"-", "c", "h", "u", "n", "k", "-">>

\* a key without the separator between the documentId and the chunk number
unseparated(documentId, index) == documentId \o Decimal(index)

ChunkId(documentId, index) == ChunkPrefix(documentId) \o Decimal(index)

\* Error.message.includes(fragment)
includes(msg, fragment) == \E i \in 1..Len(msg) : msg[i] = fragment

\* the response queryRAG returns when no context was retrieved
NoDocumentsResponse == <<"I don't have any documents loaded yet. Please upload some documents first so I can answer your questions based on their content.">>

\* ------------------------------------------------------------------------
\* Bounds and inputs
\* ------------------------------------------------------------------------

\* the callers (concurrent route invocations) of the model
Callers == {1, 2}

\* the texts the chunker is run on by itself: up to MaxTextLen characters, each
\* a letter, a sentence terminator or a newline
MaxTextLen == 8

ChunkChars == {"a", ".", "\n"}

ChunkTexts ==
    {Str(chars) : chars \in UNION {[1..n -> ChunkChars] : n \in 0..MaxTextLen}}

\* the parameters it is run with: chunkSize 1 without overlap, and chunkSize
\* MaxChunkSize without overlap and with the two largest overlaps below it
MaxChunkSize == 5

ChunkParams ==
    { [chunkSize |-> 1, chunkOverlap |-> 0] } \cup
    { [chunkSize |-> MaxChunkSize, chunkOverlap |-> overlap] :
        overlap \in {0, MaxChunkSize - 2, MaxChunkSize - 1} }

\* the most runs of a repeated character a text has that chunkText is called
\* with where its termination is checked
MaxRuns == 3

\* ids a page of listPaginated holds (decided by the index service)
PageLimit == 2

\* the server clock takes the values 1..MaxTime
MaxTime == 1

\* a dimension other than EMBEDDING_DIMENSION an index may have been created with
LegacyDimension == 1536

\* the chunk numbers keys are compared for run from 0 to MaxChunkIndex
MaxChunkIndex == 11

\* documentIds keys are compared for: those of the uploads, and ones that end
\* in a digit, hold the separator or are empty
KeyDocumentIds ==
    { <<"A">>, <<"A", "1">>, <<"1">>, << >>, <<"A", "-">>,
      <<"A", "-", "c", "h", "u", "n", "k", "-", "0">>,
      <<"A", "-", "c", "h", "u", "n", "k", "-", "1">>,
      <<"A", "-", "c", "h", "u", "n", "k", "-">> }

DocumentIds == { <<"A">>, <<"A", "-", "c", "h", "u", "n", "k", "-", "0">> }

Sources == { << >>, <<"a", ".", "t", "x", "t">>, <<"b", ".", "t", "x", "t">> }

\* the uploads: a file name and the documentId its upload is given
Uploads ==
    { [source |-> <<"a", ".", "t", "x", "t">>, documentId |-> <<"A">>],
      [source |-> << >>, documentId |-> <<"A">>],
      [source |-> <<"b", ".", "t", "x", "t">>,
       documentId |-> <<"A", "-", "c", "h", "u", "n", "k", "-", "0">>] }

\* a blank text, a text shorter than the chunk size and one longer than it
BlankText == Str(<<" ", "\n">>)

ShortText == Str(<<" ", "C", "a", "t", "s", ".", " ">>)

LongText == Rep("a", CHUNK_SIZE + 1)

Texts == { << >>, BlankText, ShortText, LongText }

Messages == { Str(<<" ">>), Str(<<"W", "h", "a", "t", "?">>) }

\* an entry of conversationHistory: an object with a role and a content, null,
\* or a string
Turn(role, content) ==
    [typeof |-> "object", null |-> FALSE, role |-> role, content |-> content]

\* the role of an entry that has none
NoRole == "<undefined>"

NullEntry == [typeof |-> "object", null |-> TRUE, role |-> NoRole, content |-> NoText]

StringEntry == [typeof |-> "string", null |-> FALSE, role |-> NoRole, content |-> NoText]

\* conversationHistory when the request has none (undefined is not an array)
NoHistory == [isArray |-> FALSE, entries |-> << >>]

\* the values of conversationHistory: none, and an array that holds turns of
\* the user and the assistant among entries of other kinds
Histories ==
    { NoHistory,
      [isArray |-> TRUE,
       entries |-> << NullEntry,
                      Turn("user", Str(<<"H", "i">>)),
                      Turn("system", Str(<<"B", "e">>)),
                      Turn("assistant", NotAString),
                      StringEntry,
                      Turn("assistant", Str(<<"Y", "o">>)),
                      Turn(NoRole, Str(<<"N", "o">>)) >>] }

\* messages of failures of the external services: where the code looks into
\* the message (listIndexes, query) one of either kind, elsewhere one
UpstreamMessages == { <<"network">>, <<"service unavailable">> }

ServiceMessages == { <<"service unavailable">> }

\* texts the generation capability answers with
GeneratedTexts == { <<"generated answer">> }

\* ------------------------------------------------------------------------
\* State
\* ------------------------------------------------------------------------

VARIABLES
    env,        \* process.env: the credentials and the index name
    index,      \* the index service: the named index, or NoIndex
    records,    \* the index service: the records of the named index, by id
    now,        \* the server clock
    concurrent, \* whether requests of different callers may overlap
    started,    \* the callers that have issued a request
    pc,         \* per caller: the call its request is waiting for, or "idle"
    req,        \* per caller: the request being handled, or the last one handled
    loc,        \* per caller: the local variables of the handlers
    out,        \* per caller: the outcome of the last request handled
    calls,      \* per caller: the calls of its request to the external services
    before,     \* per caller: what its request found when it arrived
    ledger,     \* per documentId: what the successful requests so far did to it
    chunker     \* a run of chunkText by itself: its arguments and local variables

vars == <<env, index, records, now, concurrent, started, pc, req, loc, out, calls, before, ledger, chunker>>

\* no run of chunkText by itself
NoChunker ==
    [pc |-> "none", text |-> << >>, chunkSize |-> 0, chunkOverlap |-> 0,
     start |-> 0, chunks |-> << >>, windows |-> << >>, result |-> << >>]

NoIndex == [exists |-> FALSE, dimension |-> 0, metric |-> "none"]

NoRecords == [id \in {} |-> 0]

NoVector == [dimension |-> 0, text |-> << >>, taskType |-> "none"]

\* the vector the embedding capability yields for a text under a task type
Embedding(text, taskType) ==
    [dimension |-> EMBEDDING_DIMENSION,
     text |-> text,
     taskType |-> taskType]

NoRequest ==
    [op |-> "none", text |-> << >>, source |-> << >>, documentId |-> << >>,
     message |-> << >>, conversationHistory |-> NoHistory]

NoLocals ==
    [chunks |-> << >>, vectors |-> << >>, queryEmbedding |-> NoVector,
     recreate |-> FALSE, ids |-> << >>, token |-> {}, i |-> 0, fetched |-> << >>,
     context |-> << >>, sources |-> << >>, history |-> << >>]

NoOutcome ==
    [status |-> "none", http |-> 0, error |-> << >>, deletedCount |-> 0,
     documents |-> << >>, response |-> << >>, sources |-> << >>]

\* a call to an external service: the operation, a number n and a value s of
\* its arguments and, once logged, the message r of its failure (<< >> if it
\* succeeded) and, where the handler reads it, the value v it answered with
Call(op, n, s) == [op |-> op, n |-> n, s |-> s, r |-> << >>, v |-> << >>]

\* ------------------------------------------------------------------------
\* Control: how a handler moves on, returns and throws
\* ------------------------------------------------------------------------

\* the HTTP status a route answers with when its handler throws
ErrorStatus == 500

\* the error a failure inside queryRAG leaves it as (rag.ts catch blocks);
\* the other handlers rethrow what they catch
raised(op, stage, msg) ==
    IF op = "chat" /\ stage = "pinecone"
    THEN <<"Pinecone connection failed: ">> \o msg
    ELSE IF op = "chat" /\ stage = "generation"
    THEN <<"Gemini API error: ">> \o msg
    ELSE msg

Goto(p, label, locals) ==
    /\ pc' = [pc EXCEPT ![p] = label]
    /\ loc' = [loc EXCEPT ![p] = locals]
    /\ out' = [out EXCEPT ![p] = NoOutcome]

Return(p, outcome) ==
    /\ pc' = [pc EXCEPT ![p] = "idle"]
    /\ loc' = [loc EXCEPT ![p] = NoLocals]
    /\ out' = [out EXCEPT ![p] = outcome]

\* the outcome of a handler that answers with success
Success == [NoOutcome EXCEPT !.status = "ok", !.http = 200]

\* a handler that answers a failure with the no-documents response
Fabricate(p, op, stage, msg) ==
    Return(p, [Success EXCEPT !.response = NoDocumentsResponse])

\* a handler that answers a failure with success
Swallow(p, op, stage, msg) == Return(p, Success)

Throw(p, op, stage, msg) ==
    Return(p, [NoOutcome EXCEPT !.status = "error", !.http = ErrorStatus,
                                !.error = raised(op, stage, msg)])

Log(p, call, r) == calls' = [calls EXCEPT ![p] = Append(@, [call EXCEPT !.r = r])]

\* a request may start when its caller is idle: requests handled one at a time
\* all come from the first caller, concurrent callers issue one request each
CanStart(p) ==
    /\ pc[p] = "idle"
    /\ IF concurrent THEN p \notin started ELSE p = 1

Begin(p, request) ==
    /\ req' = [req EXCEPT ![p] = request]
    /\ calls' = [calls EXCEPT ![p] = << >>]
    /\ before' = [before EXCEPT ![p] =
            [index |-> index, records |-> records,
             justDeleted |-> IF req[p].op = "delete" /\ out[p].status = "ok"
                             THEN req[p].documentId ELSE NoValue]]
    /\ started' = IF concurrent THEN started \cup {p} ELSE started

\* ------------------------------------------------------------------------
\* Index gateway: getPineconeClient and getPineconeIndex (lib/pinecone.ts)
\* ------------------------------------------------------------------------

\* the error getPineconeClient or the index-name check throws, or << >> if none
ensureEntryError ==
    IF ~TruthyText(env.PINECONE_API_KEY)
    THEN <<"PINECONE_API_KEY environment variable is not set">>
    ELSE IF length(trim(env.PINECONE_API_KEY)) = 0
    THEN <<"PINECONE_API_KEY is set but appears to be empty">>
    ELSE IF ~TruthyText(env.PINECONE_INDEX_NAME)
    THEN <<"PINECONE_INDEX_NAME environment variable is not set and no index name was provided">>
    ELSE << >>

\* the call a handler waits for once getPineconeIndex has returned the handle
afterEnsure(op) ==
    CASE op = "ingest" -> "upsert"
      [] op = "chat" -> "query"
      [] OTHER -> "listPaginated"

\* a handler calls getPineconeIndex: the synchronous checks, then listIndexes
EnterEnsure(p, op, locals) ==
    IF ensureEntryError # << >>
    THEN Throw(p, op, "pinecone", ensureEntryError)
    ELSE Goto(p, "listIndexes", locals)

\* a catch block that rethrows whatever it catches
EnsureRethrow(p, msg) == Throw(p, req[p].op, "pinecone", msg)

\* the catch block of getPineconeIndex: "already exists" is not an error
EnsureCatch(p, msg) ==
    IF includes(msg, "already exists")
    THEN Goto(p, afterEnsure(req[p].op), loc[p])
    ELSE Throw(p, req[p].op, "pinecone", msg)

\* the message the catch around listIndexes rethrows
listErrorMessage(msg) ==
    IF includes(msg, "network") \/ includes(msg, "connection")
    THEN <<"Failed to connect to Pinecone. Please check:", "Original error: ">> \o msg
    ELSE <<"Pinecone API error: ">> \o msg

\* the index the service creates on createIndex
createdIndex(dimension, metric) ==
    [exists |-> TRUE, dimension |-> dimension, metric |-> metric]

\* a dimension check that finds every index wanting
neverMatches(existingIndex) == FALSE

\* the dimension check on the index found
dimensionMatches(existingIndex) == existingIndex.dimension = EMBEDDING_DIMENSION

ListIndexes(p) ==
    /\ pc[p] = "listIndexes"
    /\ UNCHANGED <<chunker, env, ledger, index, records, now, concurrent, started, req, before>>
    /\ \/ /\ Log(p, Call("listIndexes", 0, << >>), << >>)
          /\ IF ~index.exists
             THEN Goto(p, "createIndex", [loc[p] EXCEPT !.recreate = FALSE])
             ELSE IF ~dimensionMatches(index)
             THEN Goto(p, "deleteIndex", [loc[p] EXCEPT !.recreate = TRUE])
             ELSE Goto(p, afterEnsure(req[p].op), loc[p])
       \/ \E m \in UpstreamMessages :
             /\ Log(p, Call("listIndexes", 0, << >>), m)
             /\ EnsureCatch(p, listErrorMessage(m))

CreateIndex(p) ==
    /\ pc[p] = "createIndex"
    /\ UNCHANGED <<chunker, env, ledger, now, concurrent, started, req, before>>
    /\ LET call == Call("createIndex", EMBEDDING_DIMENSION, <<"cosine">>)
       IN  \/ IF ~index.exists
              THEN /\ index' = createdIndex(EMBEDDING_DIMENSION, "cosine")
                   /\ records' = NoRecords
                   /\ Log(p, call, << >>)
                   /\ Goto(p, afterEnsure(req[p].op), loc[p])
              ELSE /\ UNCHANGED <<index, records>>
                   /\ Log(p, call, <<"index ", "already exists">>)
                   /\ EnsureCatch(p, <<"index ", "already exists">>)
           \/ /\ UNCHANGED <<index, records>>
              /\ \E m \in ServiceMessages : Log(p, call, m) /\ EnsureCatch(p, m)

DeleteIndex(p) ==
    /\ pc[p] = "deleteIndex"
    /\ UNCHANGED <<chunker, env, ledger, now, concurrent, started, req, before>>
    /\ LET call == Call("deleteIndex", 0, << >>)
       IN  \/ IF index.exists
              THEN /\ index' = NoIndex
                   /\ records' = NoRecords
                   /\ Log(p, call, << >>)
                   /\ Goto(p, "settle", loc[p])
              ELSE /\ UNCHANGED <<index, records>>
                   /\ Log(p, call, <<"index ", "not found">>)
                   /\ EnsureCatch(p, <<"index ", "not found">>)
           \/ /\ UNCHANGED <<index, records>>
              /\ \E m \in ServiceMessages : Log(p, call, m) /\ EnsureCatch(p, m)

\* the settling delay between deleteIndex and createIndex
SETTLE_MS == 2000

\* a recreation that stops after the delay, without createIndex
SettleOnly(p) ==
    /\ pc[p] = "settle"
    /\ Log(p, Call("setTimeout", SETTLE_MS, << >>), << >>)
    /\ Goto(p, afterEnsure(req[p].op), loc[p])
    /\ UNCHANGED <<chunker, env, ledger, index, records, now, concurrent, started, req, before>>

Settle(p) ==
    /\ pc[p] = "settle"
    /\ Log(p, Call("setTimeout", SETTLE_MS, << >>), << >>)
    /\ Goto(p, "createIndex", loc[p])
    /\ UNCHANGED <<chunker, env, ledger, index, records, now, concurrent, started, req, before>>

\* ------------------------------------------------------------------------
\* Index service: the operations on the records of the index
\* ------------------------------------------------------------------------

NoTime == 0

NoMetadata ==
    [text |-> NoText, source |-> NoValue, chunkIndex |-> -1,
     documentId |-> NoValue, createdAt |-> NoTime]

\* the error of the index service for an operation on the index, or << >>
indexError(dimension) ==
    IF ~index.exists THEN <<"index ", "not found">>
    ELSE IF dimension # index.dimension
    THEN <<"Vector dimension ", "does not match the dimension of the index">>
    ELSE << >>

\* an upsert that leaves the records the index already holds as they are
firstWins(recs, vectors) ==
    LET ids == {vectors[i].id : i \in 1..Len(vectors)}
        first(id) == CHOOSE i \in 1..Len(vectors) : vectors[i].id = id
    IN  [id \in (DOMAIN recs) \cup ids |->
            IF id \in DOMAIN recs THEN recs[id]
            ELSE [values |-> vectors[first(id)].values,
                  metadata |-> vectors[first(id)].metadata]]

\* the records after index.upsert(vectors): a later vector of an id wins
upserted(recs, vectors) ==
    LET ids == {vectors[i].id : i \in 1..Len(vectors)}
        last(id) == SetMax({i \in 1..Len(vectors) : vectors[i].id = id})
    IN  [id \in (DOMAIN recs) \cup ids |->
            IF id \in ids
            THEN [values |-> vectors[last(id)].values,
                  metadata |-> vectors[last(id)].metadata]
            ELSE recs[id]]

\* a deleteMany that removes nothing
kept(recs, ids) == recs

\* the records after index.deleteMany(ids)
deleted(recs, ids) == [id \in (DOMAIN recs) \ Range(ids) |-> recs[id]]

\* some enumeration of a finite set
\* the first k elements of a set, in the order the service keeps them in
RECURSIVE firstOf(_, _)
firstOf(S, k) ==
    IF S = {} \/ k = 0 THEN << >>
    ELSE LET e == CHOOSE e \in S : TRUE IN <<e>> \o firstOf(S \ {e}, k - 1)

\* index.listPaginated({prefix, paginationToken}): a page of at most PageLimit
\* ids and the token of the next page ({} when there is none).  The token is
\* opaque to the caller; the service encodes in it the ids already listed.
listPage(recs, prefix, token) ==
    LET rest == {id \in DOMAIN recs : startsWith(id, prefix)} \ token
        page == firstOf(rest, PageLimit)
    IN  [vectors |-> page,
         next |-> IF Len(page) = Cardinality(rest) THEN {} ELSE token \cup Range(page)]

\* index.fetch(ids): the records found, in the order asked for
fetched(recs, ids) ==
    LET found == SelectSeq(ids, LAMBDA id : id \in DOMAIN recs)
    IN  [i \in 1..Len(found) |-> [id |-> found[i], metadata |-> recs[found[i]].metadata]]

\* the sequences of k distinct elements of S
RECURSIVE Arrangements(_, _)
Arrangements(S, k) ==
    IF k = 0 THEN { << >> }
    ELSE UNION { { <<e>> \o a : a \in Arrangements(S \ {e}, k - 1) } : e \in S }

\* index.query({vector, topK, includeMetadata}): the answers the service may
\* give, each the topK nearest records in the service's order of similarity
matchesOf(recs, topK) ==
    { [i \in 1..Len(a) |-> [id |-> a[i], metadata |-> recs[a[i]].metadata]] :
        a \in Arrangements(DOMAIN recs, Min(topK, Cardinality(DOMAIN recs))) }

\* the server clock is read: it does not run backwards
ReadClock == \E t \in now..MaxTime : now' = t

\* the ledger entry of a documentId no successful ingest has named
NoEntry == [state |-> "never", chunkCount |-> 0, source |-> NoValue]

\* the ledger once processDocument has succeeded with these vectors
Ingested(entries, documentId, source, vectors) ==
    [entries EXCEPT ![documentId] =
        [state |-> "live", chunkCount |-> Len(vectors), source |-> source]]

\* the ledger once deleteDocumentVectors has succeeded for documentId
Deleted(entries, documentId) ==
    [entries EXCEPT ![documentId] =
        IF @.state = "never" THEN @ ELSE [NoEntry EXCEPT !.state = "deleted"]]

\* ------------------------------------------------------------------------
\* Ingestion: POST /api/documents -> processDocument (lib/rag.ts)
\* ------------------------------------------------------------------------

\* a check of the credential only
keyOnly(texts) ==
    IF ~TruthyText(env.GEMINI_API_KEY)
    THEN <<"GEMINI_API_KEY is not set in environment variables">>
    ELSE << >>

\* the error generateEmbeddings throws before calling the capability, or << >>
embedBatchError(texts) ==
    IF ~TruthyText(env.GEMINI_API_KEY)
    THEN <<"GEMINI_API_KEY is not set in environment variables">>
    ELSE IF Len(texts) = 0 THEN <<"Texts array cannot be empty">>
    ELSE << >>

\* vectors numbered from one
oneBased(chunks, embeddings, source, documentId, createdAt) ==
    [i \in 1..Len(chunks) |->
        [id |-> ChunkId(documentId, i),
         values |-> embeddings[i],
         metadata |-> [text |-> chunks[i], source |-> source, chunkIndex |-> i,
                       documentId |-> documentId, createdAt |-> createdAt]]]

\* the vectors processDocument prepares for Pinecone
vectorsOf(chunks, embeddings, source, documentId, createdAt) ==
    [i \in 1..Len(chunks) |->
        [id |-> ChunkId(documentId, i - 1),
         values |-> embeddings[i],
         metadata |-> [text |-> chunks[i], source |-> source, chunkIndex |-> i - 1,
                       documentId |-> documentId, createdAt |-> createdAt]]]

IngestStart(p, text, source, documentId) ==
    LET chunks == chunkText(text, CHUNK_SIZE, CHUNK_OVERLAP)
    IN  /\ CanStart(p)
        /\ Begin(p, [NoRequest EXCEPT !.op = "ingest", !.text = text,
                                      !.source = source, !.documentId = documentId])
        /\ IF embedBatchError(chunks) # << >>
           THEN Throw(p, "ingest", "embedding", embedBatchError(chunks))
           ELSE Goto(p, "batchEmbedContents", [NoLocals EXCEPT !.chunks = chunks])
        /\ UNCHANGED <<chunker, env, ledger, index, records, now, concurrent>>

\* an answer with the vectors in the reverse order of the texts
reversedEmbeddings(texts, taskType) ==
    [i \in 1..Len(texts) |-> Embedding(texts[Len(texts) + 1 - i], taskType)]

\* what model.batchEmbedContents answers for the texts of a request
batchEmbeddings(texts, taskType) ==
    [i \in 1..Len(texts) |-> Embedding(texts[i], taskType)]

\* the error generateEmbeddings throws for a response without embeddings
InvalidBatchResponse == <<"Failed to generate batch embeddings: invalid response">>

EmbedBatch(p) ==
    /\ pc[p] = "batchEmbedContents"
    /\ UNCHANGED <<chunker, env, ledger, index, records, concurrent, started, req, before>>
    /\ LET call == Call("batchEmbedContents", Len(loc[p].chunks), loc[p].chunks)
           embeddings == batchEmbeddings(loc[p].chunks, "RETRIEVAL_DOCUMENT")
       IN  \/ /\ ReadClock
              /\ Log(p, [call EXCEPT !.v = embeddings], << >>)
              /\ EnterEnsure(p, "ingest",
                    [loc[p] EXCEPT !.vectors =
                        vectorsOf(loc[p].chunks, embeddings,
                                  req[p].source, req[p].documentId, now')])
           \/ /\ UNCHANGED now
              /\ Log(p, call, InvalidBatchResponse)
              /\ Throw(p, "ingest", "embedding", InvalidBatchResponse)
           \/ /\ UNCHANGED now
              /\ \E m \in ServiceMessages :
                    Log(p, call, m) /\ Throw(p, "ingest", "embedding", m)

Upsert(p) ==
    /\ pc[p] = "upsert"
    /\ UNCHANGED <<chunker, env, index, now, concurrent, started, req, before>>
    /\ LET call == Call("upsert", Len(loc[p].vectors), loc[p].vectors)
           refused == indexError(loc[p].vectors[1].values.dimension)
       IN  \/ IF refused = << >>
              THEN /\ records' = upserted(records, loc[p].vectors)
                   /\ ledger' = Ingested(ledger, req[p].documentId, req[p].source,
                                         loc[p].vectors)
                   /\ Log(p, call, << >>)
                   /\ Return(p, Success)
              ELSE /\ UNCHANGED <<records, ledger>>
                   /\ Log(p, call, refused)
                   /\ Throw(p, "ingest", "pinecone", refused)
           \/ /\ UNCHANGED <<records, ledger>>
              /\ \E m \in ServiceMessages :
                    Log(p, call, m) /\ Throw(p, "ingest", "pinecone", m)

\* ------------------------------------------------------------------------
\* Document registry: GET /api/documents -> getUniqueDocuments and
\* DELETE /api/documents/[documentId] -> deleteDocumentVectors (lib/pinecone.ts)
\* ------------------------------------------------------------------------

\* the outcome of a route that rejects its request
Rejected(msg) == [NoOutcome EXCEPT !.status = "rejected", !.http = 400, !.error = msg]

\* the forEach body of getUniqueDocuments: one vector folded into documentMap
folded(docs, vector, t) ==
    LET metadata == vector.metadata
        at == {i \in 1..Len(docs) : docs[i].documentId = metadata.documentId}
        entered == IF at = {}
                   THEN Append(docs, [documentId |-> metadata.documentId,
                                      source |-> metadata.source,
                                      createdAt |-> IF metadata.createdAt # NoTime
                                                    THEN metadata.createdAt ELSE t,
                                      chunkCount |-> 0])
                   ELSE docs
        i == CHOOSE i \in 1..Len(entered) : entered[i].documentId = metadata.documentId
    IN  IF Truthy(metadata.documentId) /\ Truthy(metadata.source)
        THEN [entered EXCEPT
                ![i].chunkCount = @ + 1,
                ![i].createdAt = IF metadata.createdAt # NoTime /\ metadata.createdAt < @
                                 THEN metadata.createdAt ELSE @]
        ELSE docs

\* the documents getUniqueDocuments returns for the vectors fetched
\* allVectors.forEach: the vectors folded one after the other, the first half
\* of them before the second
RECURSIVE foldedAll(_, _, _)
foldedAll(docs, vectors, t) ==
    IF Len(vectors) = 0 THEN docs
    ELSE IF Len(vectors) = 1 THEN folded(docs, vectors[1], t)
    ELSE LET half == Len(vectors) \div 2
             first == foldedAll(docs, SubSeq(vectors, 1, half), t)
         IN  IF Len(first) >= 0
             THEN foldedAll(first, SubSeq(vectors, half + 1, Len(vectors)), t)
             ELSE first

documentsOf(allVectors, t) == foldedAll(<< >>, allVectors, t)

\* documents.sort by createdAt, newest first (Array.prototype.sort is stable)
RECURSIVE sortNewestFirst(_)
sortNewestFirst(docs) ==
    IF docs = << >> THEN << >>
    ELSE LET sorted == sortNewestFirst(SubSeq(docs, 1, Len(docs) - 1))
             d == docs[Len(docs)]
             k == Cardinality({j \in 1..Len(sorted) : sorted[j].createdAt >= d.createdAt})
         IN  SubSeq(sorted, 1, k) \o <<d>> \o SubSeq(sorted, k + 1, Len(sorted))

ListStart(p) ==
    /\ CanStart(p)
    /\ Begin(p, [NoRequest EXCEPT !.op = "list"])
    /\ EnterEnsure(p, "list", NoLocals)
    /\ UNCHANGED <<chunker, env, ledger, index, records, now, concurrent>>

DeleteStart(p, documentId) ==
    /\ CanStart(p)
    /\ Begin(p, [NoRequest EXCEPT !.op = "delete", !.documentId = documentId])
    /\ IF ~Truthy(documentId)
       THEN Return(p, Rejected(<<"Document ID is required">>))
       ELSE EnterEnsure(p, "delete", NoLocals)
    /\ UNCHANGED <<chunker, env, ledger, index, records, now, concurrent>>

\* the prefix a handler lists ids under
listPrefix(request) ==
    IF request.op = "delete" THEN ChunkPrefix(request.documentId) ELSE << >>

\* the listPaginated call of a handler: the prefix, and the token it passes back
listCall(p) ==
    [Call("listPaginated", Cardinality(loc[p].token), listPrefix(req[p]))
        EXCEPT !.v = [token |-> loc[p].token, vectors |-> << >>, next |-> {}]]

\* a batch that runs to the end of the ids
wholeBatch(ids, i) == SubSeq(ids, i + 1, Len(ids))

\* allIds.slice(i, i + batchSize)
batchOf(ids, i) == SubSeq(ids, i + 1, Min(i + FETCH_BATCH_SIZE, Len(ids)))

\* one iteration of the do-while loops of getUniqueDocuments and
\* deleteDocumentVectors, and what follows the loop when it ends
ListPaginated(p) ==
    /\ pc[p] = "listPaginated"
    /\ UNCHANGED <<chunker, env, index, records, now, concurrent, started, req, before>>
    /\ \/ IF index.exists
          THEN LET result == listPage(records, listPrefix(req[p]), loc[p].token)
                   ids == loc[p].ids \o result.vectors
                   locals == [loc[p] EXCEPT !.ids = ids, !.token = result.next]
               IN  /\ Log(p, [listCall(p) EXCEPT !.v.vectors = result.vectors,
                                                   !.v.next = result.next], << >>)
                   /\ IF result.next # {}
                      THEN /\ Goto(p, "listPaginated", locals)
                           /\ UNCHANGED ledger
                      ELSE IF Len(ids) = 0
                      THEN /\ Return(p, Success)
                           /\ ledger' = IF req[p].op = "delete"
                                         THEN Deleted(ledger, req[p].documentId)
                                         ELSE ledger
                      ELSE /\ Goto(p, IF req[p].op = "delete" THEN "deleteMany"
                                                              ELSE "fetch", locals)
                           /\ UNCHANGED ledger
          ELSE /\ Log(p, listCall(p), indexError(index.dimension))
               /\ Throw(p, req[p].op, "registry", indexError(index.dimension))
               /\ UNCHANGED ledger
       \/ /\ \E m \in ServiceMessages :
                Log(p, listCall(p), m) /\ Throw(p, req[p].op, "registry", m)
          /\ UNCHANGED ledger

\* one iteration of the fetch loop of getUniqueDocuments; after the last one
\* the documents are grouped and the route sorts them
Fetch(p) ==
    /\ pc[p] = "fetch"
    /\ LET batch == batchOf(loc[p].ids, loc[p].i)
           i == loc[p].i + FETCH_BATCH_SIZE
           call == Call("fetch", Len(batch), batch)
       IN  /\ UNCHANGED <<chunker, env, ledger, index, records, concurrent, started, req, before>>
           /\ \/ IF index.exists
                 THEN LET allVectors == loc[p].fetched \o fetched(records, batch)
                      IN  /\ Log(p, call, << >>)
                          /\ IF i < Len(loc[p].ids)
                             THEN /\ UNCHANGED now
                                  /\ Goto(p, "fetch",
                                          [loc[p] EXCEPT !.i = i, !.fetched = allVectors])
                             ELSE /\ ReadClock
                                  /\ Return(p, [Success EXCEPT !.documents =
                                        sortNewestFirst(documentsOf(allVectors, now'))])
                 ELSE /\ UNCHANGED now
                      /\ Log(p, call, indexError(index.dimension))
                      /\ Throw(p, "list", "registry", indexError(index.dimension))
              \/ /\ UNCHANGED now
                 /\ \E m \in ServiceMessages :
                       Log(p, call, m) /\ Throw(p, "list", "registry", m)

DeleteMany(p) ==
    /\ pc[p] = "deleteMany"
    /\ UNCHANGED <<chunker, env, index, now, concurrent, started, req, before>>
    /\ LET call == Call("deleteMany", Len(loc[p].ids), loc[p].ids)
       IN  \/ IF index.exists
              THEN /\ records' = deleted(records, loc[p].ids)
                   /\ ledger' = Deleted(ledger, req[p].documentId)
                   /\ Log(p, call, << >>)
                   /\ Return(p, [Success EXCEPT !.deletedCount = Len(loc[p].ids)])
              ELSE /\ UNCHANGED <<records, ledger>>
                   /\ Log(p, call, indexError(index.dimension))
                   /\ Throw(p, "delete", "registry", indexError(index.dimension))
           \/ /\ UNCHANGED <<records, ledger>>
              /\ \E m \in ServiceMessages :
                    Log(p, call, m) /\ Throw(p, "delete", "registry", m)

\* ------------------------------------------------------------------------
\* Query: POST /api/chat -> queryRAG (lib/rag.ts)
\* ------------------------------------------------------------------------

\* a check of the text before the check of the credential
textFirst(text) ==
    IF ~TruthyText(text) \/ length(trim(text)) = 0 THEN <<"Text cannot be empty">>
    ELSE IF ~TruthyText(env.GEMINI_API_KEY)
    THEN <<"GEMINI_API_KEY is not set in environment variables">>
    ELSE << >>

\* the error generateEmbedding throws before calling the capability, or << >>
embedError(text) ==
    IF ~TruthyText(env.GEMINI_API_KEY)
    THEN <<"GEMINI_API_KEY is not set in environment variables">>
    ELSE IF ~TruthyText(text) \/ length(trim(text)) = 0 THEN <<"Text cannot be empty">>
    ELSE << >>

\* the message the catch block of queryVectors rethrows
queryErrorMessage(msg) ==
    IF includes(msg, "network") \/ includes(msg, "connection") \/ includes(msg, "reach")
    THEN <<"Failed to connect to Pinecone. Please verify:", "Original error: ">> \o msg
    ELSE <<"Pinecone query error: ">> \o msg

\* result.metadata?.text, or '' when it is absent
textOf(result) ==
    IF TruthyText(result.metadata.text) THEN result.metadata.text ELSE << >>

\* the context queryRAG extracts from the retrieved chunks
contextOf(results) ==
    join(SelectSeq([i \in 1..Len(results) |-> textOf(results[i])], NonEmpty),
         Str(<<"\n", "\n">>))

\* the sources of the retrieved chunks, before duplicates are removed
sourcesOf(results) ==
    SelectSeq([i \in 1..Len(results) |-> results[i].metadata.source], Truthy)

\* the prompt queryRAG sends to the generation capability
promptOf(context, query) ==
    join(<<Str(<<"You are a helpful assistant. Answer the user's question based on the following context. If the context doesn't contain enough information, say so.",
                 "\n", "\n", "Context:", "\n">>),
           context, Str(<<"\n", "\n", "Question: ">>), query,
           Str(<<"\n", "\n", "Answer:">>)>>, << >>)

\* a filter that keeps every entry
anyEntry(msg) == TRUE

\* the filter of the chat route on the entries of conversationHistory
validTurn(msg) ==
    /\ ~msg.null
    /\ msg.typeof = "object"
    /\ (msg.role = "user" \/ msg.role = "assistant")
    /\ IsString(msg.content)

\* the history the chat route passes to queryRAG
historyOf(conversationHistory) ==
    IF conversationHistory.isArray
    THEN SelectSeq(conversationHistory.entries, validTurn)
    ELSE << >>

\* the chat route, then queryRAG(message, 5, history) up to its first call;
\* queryRAG has the parameters query and topK and reads no third argument
ChatStart(p, message, conversationHistory) ==
    /\ CanStart(p)
    /\ Begin(p, [NoRequest EXCEPT !.op = "chat", !.message = message,
                                  !.conversationHistory = conversationHistory])
    /\ IF ~TruthyText(message) \/ ~IsString(message)
       THEN Return(p, Rejected(<<"Message is required">>))
       ELSE IF embedError(message) # << >>
       THEN Throw(p, "chat", "embedding", embedError(message))
       ELSE Goto(p, "embedContent",
                 [NoLocals EXCEPT !.history = historyOf(conversationHistory)])
    /\ UNCHANGED <<chunker, env, ledger, index, records, now, concurrent>>

\* the error generateEmbedding throws for a response without an embedding
InvalidResponse == <<"Failed to generate embeddings: invalid response">>

EmbedQuery(p) ==
    /\ pc[p] = "embedContent"
    /\ UNCHANGED <<chunker, env, ledger, index, records, now, concurrent, started, req, before>>
    /\ LET call == Call("embedContent", 1, req[p].message)
           embedding == Embedding(req[p].message, "RETRIEVAL_QUERY")
       IN  \/ /\ Log(p, [call EXCEPT !.v = embedding], << >>)
              /\ EnterEnsure(p, "chat", [loc[p] EXCEPT !.queryEmbedding = embedding])
           \/ /\ Log(p, call, InvalidResponse)
              /\ Throw(p, "chat", "embedding", InvalidResponse)
           \/ \E m \in ServiceMessages :
                 Log(p, call, m) /\ Throw(p, "chat", "embedding", m)

\* a context check without the trim
emptyContext(context) == length(context) = 0

\* the check of queryRAG that there is no context to answer from
noContext(context) == length(context) = 0 \/ length(trim(context)) = 0

\* queryVectors, then the context check of queryRAG
Query(p) ==
    /\ pc[p] = "query"
    /\ UNCHANGED <<chunker, env, ledger, index, records, now, concurrent, started, req, before>>
    /\ LET call == Call("query", TOP_K, << >>)
           refused == indexError(loc[p].queryEmbedding.dimension)
       IN  \/ IF refused = << >>
              THEN \E results \in matchesOf(records, TOP_K) :
                        LET context == contextOf(results)
                            sources == sourcesOf(results)
                        IN  /\ Log(p, [call EXCEPT !.v = results], << >>)
                            /\ IF noContext(context)
                               THEN Return(p, [Success EXCEPT
                                                 !.response = NoDocumentsResponse,
                                                 !.sources = << >>])
                               ELSE IF ~TruthyText(env.GEMINI_API_KEY)
                               THEN Throw(p, "chat", "configuration",
                                          <<"GEMINI_API_KEY is not set in environment variables">>)
                               ELSE Goto(p, "generateContent",
                                         [loc[p] EXCEPT !.context = context,
                                                        !.sources = sources])
              ELSE /\ Log(p, call, refused)
                   /\ Throw(p, "chat", "pinecone", queryErrorMessage(refused))
           \/ \E m \in UpstreamMessages :
                 Log(p, call, m) /\ Throw(p, "chat", "pinecone", queryErrorMessage(m))

Generate(p) ==
    /\ pc[p] = "generateContent"
    /\ UNCHANGED <<chunker, env, ledger, index, records, now, concurrent, started, req, before>>
    /\ LET call == Call("generateContent", 1, promptOf(loc[p].context, req[p].message))
       IN  \/ \E text \in GeneratedTexts :
                 /\ Log(p, call, << >>)
                 /\ Return(p, [Success EXCEPT !.response = text,
                                              !.sources = dedupe(loc[p].sources)])
           \/ \E m \in ServiceMessages :
                 Log(p, call, m) /\ Throw(p, "chat", "generation", m)

\* ------------------------------------------------------------------------
\* Initial states and the specifications
\* ------------------------------------------------------------------------

ConfiguredEnv ==
    [GEMINI_API_KEY |-> Str(<<"g">>), PINECONE_API_KEY |-> Str(<<"p">>),
     PINECONE_INDEX_NAME |-> Str(<<"r", "a", "g">>)]

\* the configured environment, and the environments with one setting missing
Environments ==
    { ConfiguredEnv,
      [ConfiguredEnv EXCEPT !.GEMINI_API_KEY = NoText],
      [ConfiguredEnv EXCEPT !.PINECONE_API_KEY = NoText],
      [ConfiguredEnv EXCEPT !.PINECONE_API_KEY = Str(<<" ">>)],
      [ConfiguredEnv EXCEPT !.PINECONE_INDEX_NAME = NoText] }

\* a record written by another writer: blank text, a source, no documentId
ForeignRecords ==
    [id \in { <<"x">> } |->
        [values |-> [dimension |-> EMBEDDING_DIMENSION, text |-> Str(<<" ">>),
                     taskType |-> "RETRIEVAL_DOCUMENT"],
         metadata |-> [NoMetadata EXCEPT !.text = Str(<<" ">>),
                                         !.source = <<"x", ".", "t", "x", "t">>]]]

\* the records of an index created for vectors of another dimension
LegacyRecords ==
    [id \in { ChunkId(<<"A">>, 0) } |->
        [values |-> [dimension |-> LegacyDimension, text |-> Str(<<"o", "l", "d">>),
                     taskType |-> "RETRIEVAL_DOCUMENT"],
         metadata |-> [text |-> Str(<<"o", "l", "d">>), source |-> <<"a", ".", "t", "x", "t">>,
                       chunkIndex |-> 0, documentId |-> <<"A">>, createdAt |-> 1]]]

\* what the index service may hold when the application starts
InitialIndexes ==
    { [index |-> NoIndex, records |-> NoRecords],
      [index |-> createdIndex(EMBEDDING_DIMENSION, "cosine"), records |-> NoRecords],
      [index |-> createdIndex(EMBEDDING_DIMENSION, "cosine"), records |-> ForeignRecords],
      [index |-> createdIndex(LegacyDimension, "cosine"), records |-> LegacyRecords] }

InitWith(overlap) ==
    /\ env \in Environments
    /\ \E s \in InitialIndexes : index = s.index /\ records = s.records
    /\ now = 1
    /\ concurrent = overlap
    /\ started = {}
    /\ pc = [p \in Callers |-> "idle"]
    /\ req = [p \in Callers |-> NoRequest]
    /\ loc = [p \in Callers |-> NoLocals]
    /\ out = [p \in Callers |-> NoOutcome]
    /\ calls = [p \in Callers |-> << >>]
    /\ before = [p \in Callers |->
            [index |-> index, records |-> records, justDeleted |-> NoValue]]
    /\ ledger = [d \in DocumentIds |-> NoEntry]
    /\ chunker = NoChunker

Init == InitWith(FALSE)

InitConcurrent == InitWith(TRUE)

Next ==
    \E p \in Callers :
        \/ \E text \in Texts, upload \in Uploads :
              IngestStart(p, text, upload.source, upload.documentId)
        \/ EmbedBatch(p)
        \/ Upsert(p)
        \/ ListStart(p)
        \/ \E documentId \in DocumentIds \cup { << >> } : DeleteStart(p, documentId)
        \/ ListPaginated(p)
        \/ Fetch(p)
        \/ DeleteMany(p)
        \/ \E message \in Messages \cup { << >>, NoText, NotAString },
                 conversationHistory \in Histories :
              ChatStart(p, message, conversationHistory)
        \/ EmbedQuery(p)
        \/ Query(p)
        \/ Generate(p)
        \/ ListIndexes(p)
        \/ CreateIndex(p)
        \/ DeleteIndex(p)
        \/ Settle(p)

\* requests are handled one at a time
Spec == Init /\ [][Next]_vars

\* an index that holds more records than one fetch batch takes: those of a
\* document "A" and one of a document "A-chunk-0"
ScanRecords ==
    [id \in { ChunkId(<<"A">>, i) : i \in 0..FETCH_BATCH_SIZE }
              \cup { ChunkId(ChunkId(<<"A">>, 0), 0) } |->
        LET own == startsWith(id, ChunkPrefix(ChunkId(<<"A">>, 0)))
        IN  [values |-> Embedding(Str(<<"a">>), "RETRIEVAL_DOCUMENT"),
             metadata |-> [text |-> Str(<<"a">>),
                           source |-> IF own THEN <<"b", ".", "t", "x", "t">>
                                             ELSE <<"a", ".", "t", "x", "t">>,
                           chunkIndex |-> 0,
                           documentId |-> IF own THEN ChunkId(<<"A">>, 0) ELSE <<"A">>,
                           createdAt |-> 1]]]

InitScan ==
    /\ env = ConfiguredEnv
    /\ index = createdIndex(EMBEDDING_DIMENSION, "cosine")
    /\ records = ScanRecords
    /\ now = 1
    /\ concurrent = FALSE
    /\ started = {}
    /\ pc = [p \in Callers |-> "idle"]
    /\ req = [p \in Callers |-> NoRequest]
    /\ loc = [p \in Callers |-> NoLocals]
    /\ out = [p \in Callers |-> NoOutcome]
    /\ calls = [p \in Callers |-> << >>]
    /\ before = [p \in Callers |->
            [index |-> index, records |-> records, justDeleted |-> NoValue]]
    /\ ledger = [d \in DocumentIds |-> NoEntry]
    /\ chunker = NoChunker

NextScan ==
    \E p \in Callers :
        \/ ListStart(p)
        \/ \E documentId \in DocumentIds : DeleteStart(p, documentId)
        \/ ListIndexes(p)
        \/ ListPaginated(p)
        \/ Fetch(p)
        \/ DeleteMany(p)

\* the registry over an index of many records, requests one at a time
SpecScan == InitScan /\ [][NextScan]_vars

\* the requests of different callers overlap
SpecConcurrent == InitConcurrent /\ [][Next]_vars

\* ------------------------------------------------------------------------
\* chunkText by itself, a step per iteration of its loop (lib/utils/chunking.ts)
\* ------------------------------------------------------------------------

\* chunkText is called with a text and parameters; nothing else goes on
InitChunk ==
    /\ env = ConfiguredEnv
    /\ index = NoIndex
    /\ records = NoRecords
    /\ now = 1
    /\ concurrent = FALSE
    /\ started = {}
    /\ pc = [p \in Callers |-> "idle"]
    /\ req = [p \in Callers |-> NoRequest]
    /\ loc = [p \in Callers |-> NoLocals]
    /\ out = [p \in Callers |-> NoOutcome]
    /\ calls = [p \in Callers |-> << >>]
    /\ before = [p \in Callers |->
            [index |-> index, records |-> records, justDeleted |-> NoValue]]
    /\ ledger = [d \in DocumentIds |-> NoEntry]
    /\ \E text \in ChunkTexts, params \in ChunkParams :
          chunker = [NoChunker EXCEPT !.pc = "entry", !.text = text,
                                      !.chunkSize = params.chunkSize,
                                      !.chunkOverlap = params.chunkOverlap]

appVars == <<env, index, records, now, concurrent, started, pc, req, loc, out, calls, before, ledger>>

\* the check on entry: an empty or whitespace-only text has no chunks
ChunkEntry ==
    /\ chunker.pc = "entry"
    /\ chunker' = IF length(chunker.text) = 0 \/ length(trim(chunker.text)) = 0
                  THEN [chunker EXCEPT !.pc = "done", !.result = << >>]
                  ELSE [chunker EXCEPT !.pc = "loop", !.start = 0]
    /\ UNCHANGED appVars

\* one iteration of the while loop
ChunkIterate ==
    /\ chunker.pc = "loop"
    /\ chunker.start < length(chunker.text)
    /\ LET s == chunkStep(chunker.text, chunker.start, chunker.chunkSize,
                          chunker.chunkOverlap)
       IN  chunker' = [chunker EXCEPT
                          !.chunks = Append(@, s.chunk),
                          !.windows = Append(@, [from |-> chunker.start, to |-> s.to]),
                          !.start = s.start]
    /\ UNCHANGED appVars

\* the loop ends: the chunks that are not empty are returned
ChunkReturn ==
    /\ chunker.pc = "loop"
    /\ ~(chunker.start < length(chunker.text))
    /\ chunker' = [chunker EXCEPT !.pc = "done",
                                  !.result = SelectSeq(chunker.chunks, NonEmpty)]
    /\ UNCHANGED appVars

NextChunk == ChunkEntry \/ ChunkIterate \/ ChunkReturn

SpecChunk == InitChunk /\ [][NextChunk]_vars

\* the state before chunkText is called
InitChunkCall ==
    /\ InitWith(FALSE)
    /\ env = ConfiguredEnv
    /\ index = NoIndex

\* chunkText is called with a text and its parameters
ChunkCall ==
    /\ chunker = NoChunker
    /\ \E text \in {t \in ChunkTexts : Len(t) <= MaxRuns}, params \in ChunkParams :
          chunker' = [NoChunker EXCEPT !.pc = "entry", !.text = text,
                                       !.chunkSize = params.chunkSize,
                                       !.chunkOverlap = params.chunkOverlap]
    /\ UNCHANGED appVars

NextChunkCall == ChunkCall \/ ChunkEntry \/ ChunkIterate \/ ChunkReturn

\* chunkText is synchronous: once called it runs on until it returns or loops
SpecChunkFair ==
    /\ InitChunkCall /\ [][NextChunkCall]_vars
    /\ WF_vars(ChunkEntry) /\ WF_vars(ChunkIterate) /\ WF_vars(ChunkReturn)

\* ------------------------------------------------------------------------
\* Properties
\* ------------------------------------------------------------------------

\* caller p's last request has been answered
Done(p) == pc[p] = "idle" /\ req[p].op # "none"

Succeeded(p, op) == Done(p) /\ req[p].op = op /\ out[p].status = "ok"

Failed(p, op) == Done(p) /\ req[p].op = op /\ out[p].status = "error"

\* caller p's request has called the operation op of a service
Called(p, op) == \E i \in DOMAIN calls[p] : calls[p][i].op = op

\* the ids of recs under the key prefix of documentId
under(recs, documentId) ==
    {id \in DOMAIN recs : startsWith(id, ChunkPrefix(documentId))}

\* the positions of the summaries of documentId in a listing
summariesOf(documents, documentId) ==
    {i \in DOMAIN documents : documents[i].documentId = documentId}

\* no record of recs has a text that is more than whitespace
AllBlank(recs) ==
    \A id \in DOMAIN recs :
        ~TruthyText(recs[id].metadata.text) \/ length(trim(recs[id].metadata.text)) = 0

\* the index holds no record but those the ingests of this run wrote
NothingForeign == DOMAIN records \cap DOMAIN ForeignRecords = {}

\* the records getPineconeIndex left to the request of caller p when requests
\* do not overlap: those the request found, or none if it created the index
ensured(p) == IF Called(p, "createIndex") THEN NoRecords ELSE before[p].records

\* C1: whenever listDocuments() answers and a documentId D was ingested into
\* k >= 1 chunks and not deleted afterwards, the listing holds exactly one
\* summary of D and its chunkCount is k.
C1_ChunkCount ==
    \A D \in DocumentIds :
        (Succeeded(1, "list") /\ ledger[D].state = "live") =>
            /\ Cardinality(summariesOf(out[1].documents, D)) = 1
            /\ \A i \in summariesOf(out[1].documents, D) :
                  out[1].documents[i].chunkCount = ledger[D].chunkCount

\* C2: after a successful deleteDocument(D) the index holds no record whose id
\* starts with `D-chunk-`, and every record getPineconeIndex handed over whose
\* metadata.documentId is not D is still there, values and metadata unchanged.
C2_DeleteFrame ==
    Succeeded(1, "delete") =>
        LET D == req[1].documentId
        IN  /\ under(records, D) = {}
            /\ \A id \in DOMAIN ensured(1) :
                  ensured(1)[id].metadata.documentId # D =>
                      id \in DOMAIN records /\ records[id] = ensured(1)[id]

\* C3: on an index that was empty to begin with, once D1 and D2 (distinct) have
\* been ingested and D1 has been deleted, listDocuments() returns exactly one
\* summary: that of D2, with D2's source and D2's chunk count.
C3_DeleteOneOfTwo ==
    \A D1 \in DocumentIds, D2 \in DocumentIds :
        ( /\ D1 # D2
          /\ NothingForeign
          /\ ledger[D1].state = "deleted"
          /\ ledger[D2].state = "live"
          /\ Succeeded(1, "list") ) =>
            /\ Len(out[1].documents) = 1
            /\ out[1].documents[1].documentId = D2
            /\ out[1].documents[1].source = ledger[D2].source
            /\ out[1].documents[1].chunkCount = ledger[D2].chunkCount

\* C4: deleteDocument(D) returns the number of ids the index held under the
\* prefix `D-chunk-` when getPineconeIndex handed it over; with no such id it issues no deleteMany call and fails
\* only if its configuration is missing or a service call failed, answering
\* 200 with deletedCount 0 otherwise; a deleteDocument(D) that comes right
\* after a successful deleteDocument(D) returns 0.
C4_DeleteCount ==
    (Done(1) /\ req[1].op = "delete" /\ out[1].status # "rejected") =>
        LET D == req[1].documentId
            found == Cardinality(under(ensured(1), D))
        IN  /\ out[1].status = "ok" =>
                  out[1].deletedCount = found /\ out[1].http = 200
            /\ found = 0 => ~Called(1, "deleteMany")
            /\ out[1].status = "error" =>
                  \/ ensureEntryError # << >>
                  \/ calls[1] # << >> /\ calls[1][Len(calls[1])].r # << >>
            /\ (before[1].justDeleted = D /\ out[1].status = "ok") =>
                  out[1].deletedCount = 0

\* a deleteDocument(D) right after a deleteDocument(D) of an ingested document
\* has answered 0, on an index that still holds other records
C4_SecondDelete ==
    /\ Succeeded(1, "delete")
    /\ before[1].justDeleted = req[1].documentId
    /\ ledger[req[1].documentId].state = "deleted"
    /\ out[1].deletedCount = 0
    /\ records # NoRecords

\* C5: the generation capability is only ever called with a context that is
\* more than whitespace; an answer() that succeeds without calling it returns
\* the no-documents response and no sources; and when every record of the
\* index has a blank text (or there is none), answer() calls no generation and
\* returns the no-documents response with no sources, whatever the sources of
\* the records.
C5_NoContext ==
    /\ pc[1] = "generateContent" => length(trim(loc[1].context)) > 0
    /\ (Succeeded(1, "chat") /\ ~Called(1, "generateContent")) =>
          out[1].response = NoDocumentsResponse /\ out[1].sources = << >>
    /\ (req[1].op = "chat" /\ AllBlank(before[1].records)) =>
          /\ ~Called(1, "generateContent")
          /\ pc[1] # "generateContent"
          /\ out[1].status = "ok" =>
                out[1].response = NoDocumentsResponse /\ out[1].sources = << >>

\* answer() has returned the no-documents response from an index whose only
\* record has a blank text and a source
C5_BlankRecord ==
    /\ Succeeded(1, "chat")
    /\ Called(1, "query")
    /\ out[1].response = NoDocumentsResponse
    /\ out[1].sources = << >>
    /\ \E id \in DOMAIN records : Truthy(records[id].metadata.source)

\* C6: in answer(), a call to a service that fails is the last call of the
\* request: the request ends there with an error, the chat endpoint answers
\* 500, and neither a generated answer nor the no-documents response nor any
\* source is returned.
C6_FailuresRaise ==
    req[1].op = "chat" =>
        /\ \A i \in DOMAIN calls[1] :
              calls[1][i].r # << >> =>
                  /\ i = Len(calls[1])
                  /\ Failed(1, "chat")
        /\ Failed(1, "chat") =>
              /\ out[1].http = ErrorStatus
              /\ out[1].error # << >>
              /\ out[1].response = << >>
              /\ out[1].sources = << >>

\* answer() has raised the failure of the generation call
C6_GenerationFailed ==
    /\ Failed(1, "chat")
    /\ calls[1] # << >>
    /\ calls[1][Len(calls[1])].op = "generateContent"
    /\ calls[1][Len(calls[1])].r # << >>
    /\ includes(out[1].error, "Gemini API error: ")

\* C7: whenever an ingest is about to issue its upsert, getPineconeIndex has
\* returned to it and the index exists with dimension EMBEDDING_DIMENSION.
C7_UpsertAfterEnsure ==
    \A p \in Callers :
        pc[p] = "upsert" =>
            /\ Called(p, "listIndexes")
            /\ index.exists
            /\ index.dimension = EMBEDDING_DIMENSION

\* the position of the listIndexes call among the calls of caller p
ensureAt(p) == CHOOSE i \in DOMAIN calls[p] : calls[p][i].op = "listIndexes"

\* C8: when a request finds the index with another dimension than
\* EMBEDDING_DIMENSION, the calls that follow its listIndexes are deleteIndex,
\* then the settling delay, then createIndex with dimension 768 and the cosine
\* metric; once that createIndex has succeeded the request goes on with the
\* recreated index, which holds none of the records stored before; and no
\* error of the request is the dimension mismatch.
C8_Recreate ==
    ( /\ before[1].index.exists
      /\ before[1].index.dimension # EMBEDDING_DIMENSION
      /\ Called(1, "listIndexes")
      /\ calls[1][ensureAt(1)].r = << >> ) =>
        LET c == calls[1]
            i == ensureAt(1)
        IN  /\ Len(c) = i => pc[1] = "deleteIndex"
            /\ Len(c) > i => c[i + 1].op = "deleteIndex"
            /\ Len(c) > i + 1 =>
                  /\ c[i + 1].r = << >>
                  /\ c[i + 2] = Call("setTimeout", SETTLE_MS, << >>)
            /\ Len(c) > i + 2 =>
                  /\ c[i + 3].op = "createIndex"
                  /\ c[i + 3].n = 768
                  /\ c[i + 3].s = <<"cosine">>
            /\ (Len(c) > i + 2 /\ c[i + 3].r = << >>) =>
                  /\ index = createdIndex(768, "cosine")
                  /\ \A id \in DOMAIN before[1].records :
                        id \in DOMAIN records => records[id] # before[1].records[id]
                  /\ Len(c) = i + 3 =>
                        pc[1] = afterEnsure(req[1].op) /\ records = NoRecords
                  /\ Len(c) > i + 3 => c[i + 4].op = afterEnsure(req[1].op)
            /\ out[1].status = "error" =>
                  ~includes(out[1].error, "does not match the dimension of the index")

\* an ingest that found the index with another dimension is about to upsert
\* into the index it recreated
C8_Recreated ==
    /\ pc[1] = "upsert"
    /\ before[1].index.dimension = LegacyDimension
    /\ before[1].records # NoRecords
    /\ calls[1][Len(calls[1])].op = "createIndex"
    /\ calls[1][Len(calls[1])].r = << >>
    /\ index.dimension = EMBEDDING_DIMENSION
    /\ records = NoRecords

\* C9: a caller whose createIndex fails with "already exists" goes on as if it
\* had succeeded: its next step is the call it wanted the index for, and no
\* error of its request carries "already exists".
C9_CreateRace ==
    \A p \in Callers :
        /\ \A i \in DOMAIN calls[p] :
              ( /\ calls[p][i].op = "createIndex"
                /\ includes(calls[p][i].r, "already exists") ) =>
                  IF i = Len(calls[p])
                  THEN pc[p] = afterEnsure(req[p].op)
                  ELSE calls[p][i + 1].op = afterEnsure(req[p].op)
        /\ ~(out[p].status = "error" /\ includes(out[p].error, "already exists"))

\* two overlapping requests both asked for the index to be created, one was
\* answered "already exists", and both went on to succeed
C9_BothReturned ==
    \E p \in Callers, q \in Callers :
        /\ p # q
        /\ \E i \in DOMAIN calls[p] :
              calls[p][i].op = "createIndex" /\ calls[p][i].r = << >>
        /\ \E i \in DOMAIN calls[q] :
              calls[q][i].op = "createIndex" /\ includes(calls[q][i].r, "already exists")
        /\ Done(p) /\ out[p].status = "ok"
        /\ Done(q) /\ out[q].status = "ok"

\* C10: a request that finds the index with dimension EMBEDDING_DIMENSION
\* issues no createIndex and no deleteIndex call and leaves the index as it
\* is; its records are those found as long as it has issued no upsert and no
\* deleteMany, so answer() and listDocuments() leave them as found at every
\* step and whatever their outcome.
C10_Reuse ==
    ( /\ req[1].op # "none"
      /\ before[1].index.exists
      /\ before[1].index.dimension = EMBEDDING_DIMENSION ) =>
        /\ ~Called(1, "createIndex")
        /\ ~Called(1, "deleteIndex")
        /\ index = before[1].index
        /\ ~(Called(1, "upsert") \/ Called(1, "deleteMany")) =>
              records = before[1].records
        /\ req[1].op \in {"chat", "list"} => records = before[1].records

\* answer() has returned a generated answer from an index it found with
\* dimension 768, whose records are still those it found
C10_Answered ==
    /\ Succeeded(1, "chat")
    /\ out[1].response \in GeneratedTexts
    /\ before[1].index.dimension = EMBEDDING_DIMENSION
    /\ records # NoRecords
    /\ records = before[1].records

\* the chunks and the record ids of the ingest request of caller p
chunksOf(p) == chunkText(req[p].text, CHUNK_SIZE, CHUNK_OVERLAP)

idsOf(p) == {ChunkId(req[p].documentId, i - 1) : i \in 1..Len(chunksOf(p))}

failedCalls(p, op) == {i \in DOMAIN calls[p] : calls[p][i].op = op /\ calls[p][i].r # << >>}

\* C12: an ingest whose batch embedding call failed is answered with an error,
\* has called neither listIndexes, createIndex, deleteIndex nor upsert, and has
\* left the index and its records as they were; an ingest one of whose calls
\* to the index service failed (other than a createIndex finding the index
\* already there) is answered with an error as well; and an ingest answered
\* with success has had every such call succeed, the upsert among them.
C12_IngestFailsWhole ==
    (Done(1) /\ req[1].op = "ingest") =>
        /\ failedCalls(1, "batchEmbedContents") # {} =>
              /\ out[1].status = "error" /\ out[1].http = ErrorStatus
              /\ \A op \in {"listIndexes", "createIndex", "deleteIndex", "upsert"} :
                    ~Called(1, op)
              /\ records = before[1].records
              /\ index = before[1].index
        /\ (\E i \in DOMAIN calls[1] :
              /\ calls[1][i].op \in {"listIndexes", "createIndex", "deleteIndex", "upsert"}
              /\ calls[1][i].r # << >>
              /\ ~includes(calls[1][i].r, "already exists")) =>
              /\ out[1].status = "error" /\ out[1].http = ErrorStatus
              /\ \A id \in idsOf(1) : id \in DOMAIN records => id \in DOMAIN before[1].records
        /\ out[1].status = "ok" =>
              /\ Called(1, "upsert")
              /\ \A i \in DOMAIN calls[1] : calls[1][i].r = << >>
        /\ out[1].status \in {"ok", "error"}

\* an ingest into an index that holds records has failed at its batch
\* embedding call
C12_EmbeddingFailed ==
    /\ Failed(1, "ingest")
    /\ failedCalls(1, "batchEmbedContents") # {}
    /\ DOMAIN records # {}

\* the calls of caller p's request to the operation op
callsTo(p, op) == {i \in DOMAIN calls[p] : calls[p][i].op = op}

\* C13: an ingest that has succeeded chunked its text into k >= 1 chunks, has
\* called the batch embedding capability exactly once, with the k chunks in
\* their order, and the single-text capability never; it has called upsert
\* exactly once, with k records, record i (from 0) having the id
\* `${documentId}-chunk-${i}`, as values the i-th vector the embedding call
\* answered with, and as metadata chunk i, the chunk number i, the documentId
\* and the source of the request.
C13_OneBatchOneUpsert ==
    Succeeded(1, "ingest") =>
        LET k == Len(chunksOf(1))
        IN  /\ k >= 1
            /\ Cardinality(callsTo(1, "batchEmbedContents")) = 1
            /\ Cardinality(callsTo(1, "upsert")) = 1
            /\ callsTo(1, "embedContent") = {}
            /\ LET embed == calls[1][CHOOSE i \in callsTo(1, "batchEmbedContents") : TRUE]
                   upsert == calls[1][CHOOSE i \in callsTo(1, "upsert") : TRUE]
               IN  /\ embed.s = chunksOf(1)
                   /\ Len(embed.v) = k
                   /\ Len(upsert.s) = k
                   /\ \A i \in 1..k :
                        /\ upsert.s[i].id = req[1].documentId
                              \o <<"-", "c", "h", "u", "n", "k", "-">> \o Decimal(i - 1)
                        /\ upsert.s[i].values = embed.v[i]
                        /\ upsert.s[i].metadata.text = chunksOf(1)[i]
                        /\ upsert.s[i].metadata.chunkIndex = i - 1
                        /\ upsert.s[i].metadata.documentId = req[1].documentId
                        /\ upsert.s[i].metadata.source = req[1].source

\* an ingest of a text of two chunks has succeeded
C13_TwoChunks == Succeeded(1, "ingest") /\ Len(chunksOf(1)) = 2

\* C14: the key `${documentId}-chunk-${chunkIndex}` of the documentId of an
\* ingest and a chunk number equals the key of another pair of a documentId
\* and a chunk number only if the documentIds are equal and the chunk numbers
\* are equal; and an ingest that has succeeded has left every record of
\* another documentId in the index as it was.
C14_KeysDistinct ==
    Succeeded(1, "ingest") =>
        /\ \A d2 \in KeyDocumentIds :
              \A i1 \in 0..MaxChunkIndex, i2 \in 0..MaxChunkIndex :
                  ChunkId(req[1].documentId, i1) = ChunkId(d2, i2) =>
                      (req[1].documentId = d2 /\ i1 = i2)
        /\ \A id \in DOMAIN ensured(1) :
              ensured(1)[id].metadata.documentId # req[1].documentId =>
                  (id \in DOMAIN records /\ records[id] = ensured(1)[id])

\* an ingest has succeeded on an index that held records of another
\* document, one of the two documentIds being a prefix of the other
C14_BesideAnother ==
    /\ Succeeded(1, "ingest")
    /\ \E id \in DOMAIN ensured(1) :
          /\ ensured(1)[id].metadata.documentId \in DocumentIds
          /\ ensured(1)[id].metadata.documentId # req[1].documentId

\* the records the query of caller p's chat request answered with, in its order
retrieved(p) == calls[p][CHOOSE i \in callsTo(p, "query") : TRUE].v

\* the texts of the records retrieved that are present and not empty, in order
textsRetrieved(p) ==
    LET texts == [i \in 1..Len(retrieved(p)) |-> retrieved(p)[i].metadata.text]
    IN  SelectSeq(texts, TruthyText)

\* every generation request of caller p is the prompt built from the texts
\* retrieved, joined by a blank line, and from the message
contextGiven(p) ==
    \A g \in callsTo(p, "generateContent") :
        calls[p][g].s = promptOf(join(textsRetrieved(p), Str(<<"\n", "\n">>)),
                                 req[p].message)

\* the list holds each of the values exactly once and nothing else, in the
\* order in which the values first occur among the records retrieved
listedOnce(p, list, values) ==
    LET firstAt(v) == CHOOSE i \in 1..Len(retrieved(p)) :
                        /\ retrieved(p)[i].metadata.source = v
                        /\ \A j \in 1..(i - 1) : retrieved(p)[j].metadata.source # v
    IN  /\ \A v \in values : Cardinality({j \in 1..Len(list) : list[j] = v}) = 1
        /\ \A j \in 1..Len(list) : list[j] \in values
        /\ \A j \in 1..Len(list), k \in 1..Len(list) :
              j < k => firstAt(list[j]) < firstAt(list[k])

\* the source values of the records retrieved: all that are present, and
\* those of them that are not the empty string
sourceValues(p) ==
    {retrieved(p)[i].metadata.source : i \in 1..Len(retrieved(p))} \ {NoValue}

namedSources(p) == {v \in sourceValues(p) : Len(v) > 0}

\* C15 as stated: the context given to generation is the non-empty texts of
\* the records retrieved, in the order of the query, joined by a blank line;
\* and the sources of a generated answer are the distinct source values of the
\* records retrieved, each once, in the order of their first occurrence.
C15_ContextAndSources ==
    /\ contextGiven(1)
    /\ (Succeeded(1, "chat") /\ Called(1, "generateContent")) =>
          listedOnce(1, out[1].sources, sourceValues(1))

\* C15, amended: the same with the sources of a generated answer being the
\* distinct source values that are not the empty string; and when every
\* record retrieved has the source "a.txt" the sources are ["a.txt"].
C15_ContextAndNamedSources ==
    /\ contextGiven(1)
    /\ (Succeeded(1, "chat") /\ Called(1, "generateContent")) =>
          /\ listedOnce(1, out[1].sources, namedSources(1))
          /\ (\A i \in 1..Len(retrieved(1)) :
                retrieved(1)[i].metadata.source = <<"a", ".", "t", "x", "t">>) =>
                    out[1].sources = << <<"a", ".", "t", "x", "t">> >>

\* an answer has been generated from two records of one source
C15_TwoOfOneSource ==
    /\ Succeeded(1, "chat") /\ Called(1, "generateContent")
    /\ Len(textsRetrieved(1)) = 2
    /\ Len(retrieved(1)) = 2
    /\ retrieved(1)[1].metadata.source = retrieved(1)[2].metadata.source
    /\ out[1].sources = << <<"a", ".", "t", "x", "t">> >>

\* an entry is an object with the role 'user' or 'assistant' and a string as
\* content
isTurn(msg) ==
    /\ msg.typeof = "object" /\ ~msg.null
    /\ msg.role \in {"user", "assistant"}
    /\ IsString(msg.content)

\* the turns among the entries of the conversationHistory of caller p's request
turnsOf(p) ==
    IF req[p].conversationHistory.isArray
    THEN SelectSeq(req[p].conversationHistory.entries, isTurn)
    ELSE << >>

\* the text sub occurs in the text t
occursIn(sub, t) ==
    \E from \in 0..(length(t) - length(sub)) : slice(t, from, from + length(sub)) = sub

\* C16: every generation request of a chat request holds the content of every
\* turn of its history.
C16_HistoryInPrompt ==
    \A g \in callsTo(1, "generateContent") :
        \A i \in 1..Len(turnsOf(1)) : occursIn(turnsOf(1)[i].content, calls[1][g].s)

\* C17: a chat request is rejected only for its message, never for its
\* conversationHistory: a message that is missing, empty or not a string is
\* answered with 400 before any call is made; otherwise the history passed on
\* is empty if conversationHistory is not an array, and else holds exactly its
\* entries that are objects with the role 'user' or 'assistant' and a string as
\* content, in their order.
C17_HistoryFiltered ==
    req[1].op = "chat" =>
        LET unusable == ~IsString(req[1].message) \/ length(req[1].message) = 0
        IN  /\ out[1].status = "rejected" => unusable
            /\ (Done(1) /\ unusable) =>
                  /\ out[1].status = "rejected" /\ out[1].http = 400
                  /\ calls[1] = << >>
            /\ pc[1] # "idle" => loc[1].history = turnsOf(1)

\* a chat request whose conversationHistory holds seven entries, two of them
\* turns, is under way with a history of these two
C17_TwoTurnsKept ==
    /\ req[1].op = "chat" /\ pc[1] # "idle"
    /\ Len(req[1].conversationHistory.entries) = 7
    /\ Len(loc[1].history) = 2
    /\ loc[1].history[1].role = "user" /\ loc[1].history[2].role = "assistant"

\* the stage of queryRAG a call to a service belongs to
stageOf(op) ==
    CASE op = "embedContent" -> "embedding"
      [] op = "generateContent" -> "generation"
      [] OTHER -> "index"

\* C18: when a call of a chat request to a service has failed with a message
\* of the service, the error of queryRAG holds that message behind a leading
\* marker that is not part of it, the marker being "Pinecone connection
\* failed: " exactly for the index stage and "Gemini API error: " exactly for
\* the generation stage (so that of the embedding stage is a third one); and
\* no call is issued a second time.
C18_StageLabels ==
    /\ (Failed(1, "chat") /\ calls[1] # << >>
            /\ calls[1][Len(calls[1])].r \notin {<< >>, InvalidResponse}) =>
          LET last == calls[1][Len(calls[1])]
              marker == Head(out[1].error)
          IN  /\ \A f \in Range(last.r) : includes(out[1].error, f)
              /\ marker \notin Range(last.r)
              /\ marker = "Pinecone connection failed: " <=> stageOf(last.op) = "index"
              /\ marker = "Gemini API error: " <=> stageOf(last.op) = "generation"
    /\ req[1].op = "chat" =>
          \A op \in {"embedContent", "listIndexes", "query", "generateContent"} :
              Cardinality(callsTo(1, op)) <= 1

\* the windows of a finished run of chunkText cover its text: there is one,
\* the first starts at offset 0, the last ends at the end of the text, each
\* later one starts at or before the offset the one before it ended at and
\* after the offset that one started at, and the chunks returned are the
\* windows, trimmed, that are not empty
windowsCover ==
    LET w == chunker.windows
    IN  /\ Len(w) >= 1
        /\ w[1].from = 0
        /\ w[Len(w)].to = length(chunker.text)
        /\ \A i \in 1..Len(w) : w[i].from < w[i].to
        /\ \A i \in 2..Len(w) :
              /\ w[i].from <= w[i - 1].to
              /\ w[i].from > w[i - 1].from
              /\ w[i].from - w[i - 1].to <= chunker.chunkOverlap
        /\ chunker.result =
              SelectSeq([i \in 1..Len(w) |-> trim(slice(chunker.text, w[i].from, w[i].to))],
                        NonEmpty)

\* C19 as stated: for every text that is not empty the windows chunkText has
\* cut when it returns cover the text.
C19_WindowsCover ==
    (chunker.pc = "done" /\ length(chunker.text) > 0) => windowsCover

\* C19, amended: for every text that is not empty or whitespace only the
\* windows chunkText has cut when it returns cover the text; what it returns
\* is what chunkText of the model of the ingestion yields.
C19_WindowsCoverText ==
    chunker.pc = "done" =>
        /\ length(trim(chunker.text)) > 0 => windowsCover
        /\ chunker.result =
              chunkText(chunker.text, chunker.chunkSize, chunker.chunkOverlap)

\* a run has returned after three windows or more, one of them cut at a
\* sentence boundary short of the window width and one overlapping the one
\* before it
C19_BrokenAndOverlapping ==
    /\ chunker.pc = "done"
    /\ Len(chunker.windows) >= 3
    /\ \E i \in 1..(Len(chunker.windows) - 1) :
          chunker.windows[i].to - chunker.windows[i].from < chunker.chunkSize
    /\ \E i \in 2..Len(chunker.windows) :
          chunker.windows[i].from < chunker.windows[i - 1].to

\* C20 as stated: for every text of at most chunkSize characters chunkText
\* returns exactly one chunk, the text trimmed.
C20_ShortTextOneChunk ==
    (chunker.pc = "done" /\ length(chunker.text) <= chunker.chunkSize) =>
        chunker.result = <<trim(chunker.text)>>

\* C20, amended: for every text of at most chunkSize characters that is not
\* empty or whitespace only chunkText returns exactly one chunk, the text
\* trimmed; for one that is empty or whitespace only it returns no chunk.
C20_ShortTextOneChunkOrNone ==
    (chunker.pc = "done" /\ length(chunker.text) <= chunker.chunkSize) =>
        IF length(trim(chunker.text)) > 0
        THEN chunker.result = <<trim(chunker.text)>>
        ELSE chunker.result = << >>

\* a run on a text shorter than chunkSize, with whitespace at both ends of
\* other characters, has returned
C20_TrimmedShortText ==
    /\ chunker.pc = "done"
    /\ length(chunker.text) < chunker.chunkSize
    /\ length(trim(chunker.text)) > 0
    /\ length(trim(chunker.text)) + 2 <= length(chunker.text)
    /\ chunker.chunkOverlap > 0

\* the offset, inside the window of chunkSize characters that starts at from,
\* of its last '.' or newline (-1 if it has none)
breakOffset(from) ==
    LET window == slice(chunker.text, from, from + chunker.chunkSize)
    IN  Max(lastIndexOf(window, "."), lastIndexOf(window, "\n"))

\* a finished run on a text longer than chunkSize none of whose windows but
\* the last has a '.' or newline past its midpoint
fixedWidthRun ==
    /\ chunker.pc = "done"
    /\ length(chunker.text) > chunker.chunkSize
    /\ \A i \in 1..(Len(chunker.windows) - 1) :
          ~(2 * breakOffset(chunker.windows[i].from) > chunker.chunkSize)

\* the last k characters of a text, and the first k
lastChars(t, k) == drop(t, length(t) - k)

firstChars(t, k) == take(t, k)

\* the windows of the run start chunkSize - chunkOverlap apart, and each but
\* the last is chunkSize wide
evenlySpaced ==
    \A i \in 1..(Len(chunker.windows) - 1) :
        /\ chunker.windows[i + 1].from =
              chunker.windows[i].from + chunker.chunkSize - chunker.chunkOverlap
        /\ chunker.windows[i].to = chunker.windows[i].from + chunker.chunkSize

\* C21 as stated: in a fixed-width run the windows are evenly spaced and the
\* last chunkOverlap characters of each chunk returned are the first
\* chunkOverlap characters of the chunk returned after it.
C21_ChunksShareOverlap ==
    fixedWidthRun =>
        /\ evenlySpaced
        /\ \A i \in 1..(Len(chunker.result) - 1) :
              lastChars(chunker.result[i], chunker.chunkOverlap) =
                  firstChars(chunker.result[i + 1], chunker.chunkOverlap)

\* C21, amended: in a fixed-width run the windows are evenly spaced, so that
\* each window, the last one too, begins with the last chunkOverlap characters
\* of the window before it; each chunk is its window trimmed, and two
\* consecutive chunks from which nothing was trimmed share these characters.
C21_WindowsShareOverlap ==
    fixedWidthRun =>
        /\ evenlySpaced
        /\ \A i \in 1..(Len(chunker.windows) - 1) :
              LET this == chunker.windows[i]
                  next == chunker.windows[i + 1]
              IN  /\ this.to - next.from = chunker.chunkOverlap
                  /\ next.to - next.from >= chunker.chunkOverlap
                  /\ chunker.chunks[i] = trim(slice(chunker.text, this.from, this.to))
                  /\ chunker.chunks[i + 1] = trim(slice(chunker.text, next.from, next.to))
                  /\ (/\ chunker.chunks[i] = slice(chunker.text, this.from, this.to)
                      /\ chunker.chunks[i + 1] = slice(chunker.text, next.from, next.to)) =>
                        lastChars(chunker.chunks[i], chunker.chunkOverlap) =
                            firstChars(chunker.chunks[i + 1], chunker.chunkOverlap)

\* a fixed-width run with an overlap has returned three chunks, the last one
\* shorter than chunkSize
C21_ThreeFixedWindows ==
    /\ fixedWidthRun
    /\ chunker.chunkOverlap > 0
    /\ Len(chunker.windows) = 3 /\ Len(chunker.result) = 3
    /\ length(chunker.result[3]) < chunker.chunkSize

\* a text is empty or holds whitespace only
blank(t) == \A i \in 1..Len(t) : t[i].c \in Whitespace

\* C22: a run of chunkText on a text that is empty or whitespace only ends
\* with the empty sequence, without entering the loop; and every chunk a run
\* returns has a character and neither begins nor ends with whitespace.
C22_BlankGivesNone ==
    /\ (chunker.pc \in {"loop", "done"} /\ blank(chunker.text)) =>
          (chunker.pc = "done" /\ chunker.result = << >> /\ chunker.windows = << >>)
    /\ chunker.pc = "done" =>
          \A i \in 1..Len(chunker.result) :
              LET chunk == chunker.result[i]
              IN  /\ length(chunk) >= 1
                  /\ chunk[1].c \notin Whitespace
                  /\ chunk[Len(chunk)].c \notin Whitespace

\* a run on a whitespace-only text longer than chunkSize has returned
C22_BlankLongText ==
    /\ chunker.pc = "done"
    /\ blank(chunker.text)
    /\ length(chunker.text) > chunker.chunkSize
    /\ chunker.chunkSize > 1

embedding(p) ==
    \/ req[p].op = "ingest"
    \/ req[p].op = "chat" /\ TruthyText(req[p].message) /\ IsString(req[p].message)

keyAbsent == env.GEMINI_API_KEY = NoText \/ length(env.GEMINI_API_KEY) = 0

\* C24: a request that reaches the embedder while GEMINI_API_KEY is absent
\* fails with the configuration error, whatever its text, and has made no
\* call; with the key present, a chat with a whitespace-only message fails with
\* 'Text cannot be empty' and an ingest whose text gives no chunks fails with
\* 'Texts array cannot be empty', both without a call; and a request whose
\* embedding call failed is answered with an error that holds every part of
\* the message of that failure.
C24_EmbedderFailures ==
    (Done(1) /\ embedding(1)) =>
        /\ keyAbsent =>
              /\ out[1].status = "error"
              /\ out[1].error = <<"GEMINI_API_KEY is not set in environment variables">>
              /\ calls[1] = << >>
        /\ (~keyAbsent /\ req[1].op = "chat" /\ blank(req[1].message)) =>
              /\ out[1].status = "error"
              /\ out[1].error = <<"Text cannot be empty">>
              /\ calls[1] = << >>
        /\ (~keyAbsent /\ req[1].op = "ingest" /\ chunksOf(1) = << >>) =>
              /\ out[1].status = "error"
              /\ out[1].error = <<"Texts array cannot be empty">>
              /\ calls[1] = << >>
        /\ \A c \in failedCalls(1, "embedContent") \cup failedCalls(1, "batchEmbedContents") :
              /\ out[1].status = "error"
              /\ \A k \in 1..Len(calls[1][c].r) : includes(out[1].error, calls[1][c].r[k])

\* a chat with a whitespace-only message has failed while the key is absent
C24_BlankWithoutKey ==
    /\ Failed(1, "chat") /\ embedding(1)
    /\ keyAbsent /\ blank(req[1].message)

\* C25: once two concurrent ingests with distinct documentIds have both been
\* answered with success, the index holds every chunk record of both.
C25_BothIngestsKept ==
    (/\ concurrent
     /\ Succeeded(1, "ingest") /\ Succeeded(2, "ingest")
     /\ req[1].documentId # req[2].documentId) =>
        \A p \in Callers : \A id \in idsOf(p) : id \in DOMAIN records

\* the windows cut so far that are not final: the text goes on beyond
\* chunkSize characters from their start
nonFinal ==
    {i \in 1..Len(chunker.windows) :
        chunker.windows[i].from + chunker.chunkSize < length(chunker.text)}

\* where the window after window i starts, or is to start
startAfter(i) ==
    IF i < Len(chunker.windows) THEN chunker.windows[i + 1].from ELSE chunker.start

\* the segment a window that is not final is cut to, and where the next starts
cutOf(i) ==
    LET from == chunker.windows[i].from
        b == breakOffset(from)
    IN  IF 2 * b > chunker.chunkSize
        THEN [segment |-> slice(chunker.text, from, from + b + 1),
              next |-> from + b + 1]
        ELSE [segment |-> slice(chunker.text, from, from + chunker.chunkSize),
              next |-> from + chunker.chunkSize - chunker.chunkOverlap]

\* C26 as stated: the chunk pushed for a window that is not final is the
\* window up to and including its last '.' or newline where that lies past
\* the midpoint, and then the next window starts right after it; otherwise it
\* is the whole window of chunkSize characters and the next window starts
\* chunkSize - chunkOverlap after this one.
C26_CutIsChunk ==
    \A i \in nonFinal :
        /\ chunker.chunks[i] = cutOf(i).segment
        /\ startAfter(i) = cutOf(i).next

\* C26, amended: the window is cut and the next window starts as stated, a
\* boundary cut sharing no character with the next window; the chunk pushed is
\* the cut segment with its leading and trailing whitespace trimmed, so a
\* newline the window was cut at is not in the chunk.
C26_CutTrimmedIsChunk ==
    \A i \in nonFinal :
        /\ chunker.windows[i].to = chunker.windows[i].from + length(cutOf(i).segment)
        /\ chunker.chunks[i] = trim(cutOf(i).segment)
        /\ startAfter(i) = cutOf(i).next
        /\ 2 * breakOffset(chunker.windows[i].from) > chunker.chunkSize =>
              startAfter(i) = chunker.windows[i].to

\* a run has returned after a fixed-width cut and a cut at a newline past the
\* midpoint, which is not in the chunk
C26_CutAtNewline ==
    /\ chunker.pc = "done"
    /\ \E i \in nonFinal : ~(2 * breakOffset(chunker.windows[i].from) > chunker.chunkSize)
    /\ \E i \in nonFinal :
          /\ 2 * breakOffset(chunker.windows[i].from) > chunker.chunkSize
          /\ chunker.chunks[i] # cutOf(i).segment

\* the calls of caller p's request to listPaginated that succeeded, in order
pagesOf(p) == SelectSeq(calls[p], LAMBDA c : c.op = "listPaginated" /\ c.r = << >>)

\* the arguments of the calls of caller p's request to the operation op that
\* succeeded, in order
askedOf(p, op) ==
    LET made == SelectSeq(calls[p], LAMBDA c : c.op = op /\ c.r = << >>)
    IN  [i \in 1..Len(made) |-> made[i].s]

\* the sequences of a sequence, one after the other
RECURSIVE flat(_)
flat(seqs) ==
    IF Len(seqs) = 0 THEN << >>
    ELSE IF Len(seqs) = 1 THEN seqs[1]
    ELSE LET half == Len(seqs) \div 2
         IN  flat(SubSeq(seqs, 1, half)) \o flat(SubSeq(seqs, half + 1, Len(seqs)))

\* the ids of the pages answered to caller p's request, in order
listedOf(p) == flat([i \in 1..Len(pagesOf(p)) |-> pagesOf(p)[i].v.vectors])

\* C27: a list or delete request passes no token with its first listPaginated
\* call and with each later one the token the page before answered with, which
\* was not empty, so that no page is requested after one without a token; each
\* call of a delete request carries the prefix of the documentId followed by
\* '-chunk-'; fetch and deleteMany are called only after a page without a
\* token, as is a success answered; the ids handed to deleteMany are the ids
\* of all pages, and the batches handed to fetch are at most 100 ids each, all
\* but the last of them 100, and once the request has succeeded they are, one
\* after the other, the ids of all pages, each id once.
C27_PagesAndBatches ==
    (req[1].op \in {"list", "delete"}) =>
        LET pages == pagesOf(1)
            batches == askedOf(1, "fetch")
            over == Len(pages) >= 1 /\ pages[Len(pages)].v.next = {}
            listed == listedOf(1)
            batched == flat(batches)
        IN  /\ \A k \in 1..Len(pages) :
                  /\ pages[k].v.token = IF k = 1 THEN {} ELSE pages[k - 1].v.next
                  /\ k > 1 => pages[k - 1].v.next # {}
                  /\ pages[k].s = IF req[1].op = "delete"
                                  THEN req[1].documentId \o <<"-", "c", "h", "u", "n", "k", "-">>
                                  ELSE << >>
            /\ (Called(1, "fetch") \/ Called(1, "deleteMany")) => over
            /\ (Done(1) /\ out[1].status = "ok") => over
            /\ \A c \in callsTo(1, "deleteMany") : calls[1][c].s = listed
            /\ \A k \in 1..Len(batches) :
                  /\ Len(batches[k]) >= 1 /\ Len(batches[k]) <= FETCH_BATCH_SIZE
                  /\ k < Len(batches) => Len(batches[k]) = FETCH_BATCH_SIZE
            /\ Len(batched) <= Len(listed)
            /\ batched = SubSeq(listed, 1, Len(batched))
            /\ (Succeeded(1, "list") /\ listed # << >>) =>
                  /\ batched = listed
                  /\ Cardinality(Range(listed)) = Len(listed)

\* a list request has succeeded after several pages and two fetch batches
C27_TwoBatches ==
    /\ Succeeded(1, "list")
    /\ Len(pagesOf(1)) > 2
    /\ Len(askedOf(1, "fetch")) = 2

\* C28: once a list request has succeeded, no summary stands for the records
\* that carry neither a documentId nor a source, and every documentId that a
\* record of the index carries has one summary, whose chunkCount is the
\* number of the records that carry it.
C28_EveryDocumentIdCounted ==
    Succeeded(1, "list") =>
        /\ \A i \in 1..Len(out[1].documents) : Truthy(out[1].documents[i].documentId)
        /\ \A id \in DOMAIN records :
              LET D == records[id].metadata.documentId
                  carrying == {other \in DOMAIN records :
                                  records[other].metadata.documentId = D}
              IN  Truthy(D) =>
                    \E i \in 1..Len(out[1].documents) :
                        /\ out[1].documents[i].documentId = D
                        /\ out[1].documents[i].chunkCount = Cardinality(carrying)
                        /\ \A j \in 1..Len(out[1].documents) :
                              out[1].documents[j].documentId = D => j = i

\* an iteration of the loop moves the start on by one character or more: by
\* the offset of the boundary plus one after a boundary cut, by chunkSize -
\* chunkOverlap after a fixed-width cut, to the end of the text after the
\* final window
startAdvances ==
    (chunker.pc = "loop" /\ chunker'.windows # chunker.windows) =>
        LET from == chunker.start
            b == breakOffset(from)
        IN  /\ chunker'.start >= from + 1
            /\ chunker'.start =
                  IF from + chunker.chunkSize < length(chunker.text)
                  THEN IF 2 * b > chunker.chunkSize
                       THEN from + b + 1
                       ELSE from + chunker.chunkSize - chunker.chunkOverlap
                  ELSE length(chunker.text)

\* C29: every run of chunkText returns; each iteration of its loop moves the
\* start on by at least one character (as startAdvances states); and no chunk
\* pushed or returned is longer than chunkSize.
C29_Terminates ==
    /\ (chunker.pc = "entry") ~> (chunker.pc = "done")
    /\ [][startAdvances]_vars
    /\ [](/\ \A i \in 1..Len(chunker.chunks) : length(chunker.chunks[i]) <= chunker.chunkSize
          /\ \A i \in 1..Len(chunker.result) : length(chunker.result[i]) <= chunker.chunkSize)

\* a run whose overlap is one less than chunkSize has returned after four
\* iterations or more
C29_SmallestStep ==
    /\ chunker.pc = "done"
    /\ chunker.chunkSize > 1
    /\ chunker.chunkOverlap = chunker.chunkSize - 1
    /\ Len(chunker.windows) >= 4

\* C30: an ingest of a text that is empty or whitespace only is never in
\* flight: it has no chunks and it is answered with an error at once, the
\* 'Texts array cannot be empty' of the batch embedder where the key is set,
\* without a call to the embedding capability or to the index service, and the
\* index and its records, and so what a list request finds, are as they were.
C30_BlankIngestFails ==
    (req[1].op = "ingest" /\ blank(req[1].text)) =>
        /\ chunkText(req[1].text, CHUNK_SIZE, CHUNK_OVERLAP) = << >>
        /\ pc[1] = "idle"
        /\ out[1].status = "error" /\ out[1].http = ErrorStatus
        /\ ~keyAbsent => out[1].error = <<"Texts array cannot be empty">>
        /\ calls[1] = << >>
        /\ index = before[1].index
        /\ records = before[1].records

\* an ingest of a whitespace-only text into an index that holds a record of
\* the same documentId has failed
C30_BlankAfterIngest ==
    /\ Failed(1, "ingest")
    /\ blank(req[1].text) /\ length(req[1].text) > 0
    /\ ~keyAbsent
    /\ \E id \in DOMAIN records : records[id].metadata.documentId = req[1].documentId

====
